---- MODULE Spec2Model ----
(***************************************************************************)
(* AVLmap<K, V> of src/src/avl-map.cpp as a state machine.                 *)
(*                                                                         *)
(* The node graph is an arena `heap`: a function from node handles to node *)
(* records, handle 0 being the null pointer.  Two map objects, "A" and     *)
(* "B", own disjoint parts of the arena through root[m]; size_[m] is the   *)
(* map's size_ field.  Keys and values are int.  The height field is kept  *)
(* as a signed integer: Node's constructor takes `int h`, the code reads   *)
(* the field only into int locals, and the one place that computes on the  *)
(* field itself (height - 1 in propagate_height_down, on a size_t per the  *)
(* class declaration) wraps to the value that reads back as that same      *)
(* negative int.  size_ is an unsigned int that the operations step by one *)
(* and that never goes below the number of nodes, so it is kept as a plain *)
(* integer.                                                                *)
(***************************************************************************)
EXTENDS Integers, Sequences, FiniteSets, TLC

(* ---------------------------- bounds ----------------------------------- *)
MaxKey == 4        \* keys of Spec are 1..MaxKey
MaxVal == 1        \* values written through operator[] are 1..MaxVal
MaxKeyIns == 6     \* keys of SpecIns (insert-only workloads)
MaxKeyCopy == 2    \* keys of SpecCopy (two maps)
MaxKeyCount == 4   \* keys of SpecCount (N insertions, then M erasures)
MaxKeyMove == 2    \* keys of SpecMove (two maps)
MaxKeyDeep == 68   \* keys of SpecDeep (a workload that builds a deep tree)
MaxKeyEnd == 3     \* keys of SpecEnd (erase of the end cursor, A = A)

Null == 0
Maps == {"A", "B"}

VARIABLES heap, root, size_, live, copied, op, nIns, nErase
vars == <<heap, root, size_, live, copied, op, nIns, nErase>>

\* Statement sequencing: v is evaluated once and F continues with its value,
\* as a statement's effect on the heap is seen by the statements after it.
Bind(v, F(_)) == CHOOSE y \in {F(x) : x \in {v}} : TRUE

(* ------------------------------ Node ----------------------------------- *)
\* A freed (or never allocated) arena slot.
FreeNode == [key |-> 0, value |-> 0, height |-> 0, balance |-> 0,
             parent |-> Null, left |-> Null, right |-> Null, alive |-> FALSE]

\* Node::Node(k, val, p, h, b, l, r)
Node(k, val, p, h, b, l, r) ==
    [key |-> k, value |-> val, height |-> h, balance |-> b,
     parent |-> p, left |-> l, right |-> r, alive |-> TRUE]

\* operator new: which free slot it hands out is the allocator's choice and
\* the code never orders or hashes addresses; the arena gives the slot
\* numbered like the key when that one is free, the lowest free slot otherwise.
NewHandle(h, key) ==
    IF key \in DOMAIN h /\ ~h[key].alive THEN key
    ELSE CHOOSE i \in DOMAIN h : ~h[i].alive /\ \A j \in DOMAIN h : j < i => h[j].alive

HasFree(h) == \E i \in DOMAIN h : ~h[i].alive

\* Node::CreateNode(key): new Node(key, V(), nullptr, 1, 0, nullptr, nullptr)
CreateNode(h, key) ==
    Bind(NewHandle(h, key), LAMBDA n :
         [heap |-> [h EXCEPT ![n] = Node(key, 0, Null, 1, 0, Null, Null)], node |-> n])

\* delete node
DeleteNode(h, n) == [h EXCEPT ![n] = FreeNode]

RECURSIVE first(_, _)
first(h, n) == IF h[n].left = Null THEN n ELSE first(h, h[n].left)

RECURSIVE last(_, _)
last(h, n) == IF h[n].right = Null THEN n ELSE last(h, h[n].right)

is_right_child(h, n) == IF h[n].parent # Null THEN h[h[n].parent].right = n ELSE FALSE

is_left_child(h, n) == IF h[n].parent # Null THEN h[h[n].parent].left = n ELSE FALSE

has_children(h, n) == (h[n].left # Null) \/ (h[n].right # Null)

\* std::optional<Node*>: Null stands for nullopt (a child is never null).
get_only_child(h, n) ==
    IF h[n].left # Null /\ h[n].right = Null THEN h[n].left
    ELSE IF h[n].left = Null /\ h[n].right # Null THEN h[n].right
    ELSE Null

\* Successor by parent links: the upward walk of Node::increment.
RECURSIVE increment_up(_, _)
increment_up(h, s) ==
    IF s = Null THEN Null
    ELSE IF is_left_child(h, s) THEN h[s].parent
    ELSE increment_up(h, h[s].parent)

\* increment that takes the right child itself, not its leftmost
\* descendant (a variant for C3).
increment_right_child(h, n) ==
    IF h[n].right # Null THEN h[n].right ELSE increment_up(h, n)

increment(h, n) == IF h[n].right # Null THEN first(h, h[n].right) ELSE increment_up(h, n)

RECURSIVE decrement_up(_, _)
decrement_up(h, p) ==
    IF p = Null THEN Null
    ELSE IF is_right_child(h, p) THEN h[p].parent
    ELSE decrement_up(h, h[p].parent)

\* decrement that takes the left child itself, not its rightmost
\* descendant (a variant for C17).
decrement_left_child(h, n) ==
    IF h[n].left # Null THEN h[n].left ELSE decrement_up(h, n)

decrement(h, n) == IF h[n].left # Null THEN last(h, h[n].left) ELSE decrement_up(h, n)

\* add_child with the two comparisons exchanged (a variant for C1).
add_child_swapped(h, self, node) ==
    Bind([h EXCEPT ![node].parent = self], LAMBDA h1 :
    Bind(IF h1[node].key > h1[self].key THEN [h1 EXCEPT ![self].left = node] ELSE h1,
         LAMBDA h2 :
         IF h2[node].key < h2[self].key THEN [h2 EXCEPT ![self].right = node] ELSE h2))

\* self.add_child(node)
add_child(h, self, node) ==
    Bind([h EXCEPT ![node].parent = self], LAMBDA h1 :
    Bind(IF h1[node].key > h1[self].key THEN [h1 EXCEPT ![self].right = node] ELSE h1,
         LAMBDA h2 :
         IF h2[node].key < h2[self].key THEN [h2 EXCEPT ![self].left = node] ELSE h2))

\* self.replace_child(to_replace, replacement)
replace_child(h, self, to_replace, replacement) ==
    IF to_replace = Null \/ replacement = Null THEN h
    ELSE
      Bind(IF to_replace = h[self].left
           THEN [h EXCEPT ![self].left = replacement,
                          ![replacement].parent = self,
                          ![to_replace].parent = Null]
           ELSE h,
           LAMBDA h1 :
           IF to_replace = h1[self].right
           THEN [h1 EXCEPT ![self].right = replacement,
                           ![replacement].parent = self,
                           ![to_replace].parent = Null]
           ELSE h1)

\* self.rotate_right()
rotate_right(h, self) ==
    IF h[self].left = Null THEN h
    ELSE
      Bind(h[self].left, LAMBDA to_promote :
      Bind([h EXCEPT ![self].left = Null], LAMBDA h1 :
      Bind(IF h1[self].parent # Null
           THEN replace_child(h1, h1[self].parent, self, to_promote)
           ELSE h1, LAMBDA h2 :
      Bind([h2 EXCEPT ![self].parent = to_promote], LAMBDA h3 :
      Bind(IF h3[to_promote].right # Null
           THEN [h3 EXCEPT ![self].left = h3[to_promote].right,
                           ![h3[to_promote].right].parent = self,
                           ![to_promote].right = Null]
           ELSE h3, LAMBDA h4 :
           [h4 EXCEPT ![to_promote].right = self])))))

\* self.rotate_left()
rotate_left(h, self) ==
    IF h[self].right = Null THEN h
    ELSE
      Bind(h[self].right, LAMBDA to_promote :
      Bind([h EXCEPT ![self].right = Null], LAMBDA h1 :
      Bind(IF h1[self].parent # Null
           THEN replace_child(h1, h1[self].parent, self, to_promote)
           ELSE h1, LAMBDA h2 :
      Bind([h2 EXCEPT ![self].parent = to_promote], LAMBDA h3 :
      Bind(IF h3[to_promote].left # Null
           THEN [h3 EXCEPT ![self].right = h3[to_promote].left,
                           ![h3[to_promote].left].parent = self,
                           ![to_promote].left = Null]
           ELSE h3, LAMBDA h4 :
           [h4 EXCEPT ![to_promote].left = self])))))

\* Rotation
NONE == "NONE"
RIGHT == "RIGHT"
LEFT == "LEFT"

\* The branch `balance > 1` of try_fix_balance; ub = TRUE when the root
\* rewrite dereferences a null right child (the heap is then left as the
\* statements before the fault made it); nullrot = TRUE when the child
\* that rotate_left is to promote is null.
fix_left(h0, self, previous, inserted, rt) ==
    Bind(IF previous # Null /\ h0[inserted].key < h0[previous].key
         THEN rotate_right(h0, previous) ELSE h0, LAMBDA h1 :
         IF self = rt
         THEN IF h1[self].right = Null
              THEN [heap |-> h1, root |-> Null, rot |-> LEFT, ub |-> TRUE,
                    nullrot |-> TRUE]
              ELSE Bind([h1 EXCEPT ![h1[self].right].parent = Null], LAMBDA h2 :
                        [heap |-> rotate_left(h2, self), root |-> h1[self].right,
                         rot |-> LEFT, ub |-> FALSE, nullrot |-> FALSE])
         ELSE [heap |-> rotate_left(h1, self), root |-> rt, rot |-> LEFT, ub |-> FALSE,
               nullrot |-> (h1[self].right = Null)])

\* The branch `balance < -1` of try_fix_balance.
fix_right(h0, self, previous, inserted, rt) ==
    Bind(IF previous # Null /\ h0[inserted].key > h0[previous].key
         THEN rotate_left(h0, previous) ELSE h0, LAMBDA h1 :
         IF self = rt
         THEN IF h1[self].left = Null
              THEN [heap |-> h1, root |-> Null, rot |-> RIGHT, ub |-> TRUE,
                    nullrot |-> TRUE]
              ELSE Bind([h1 EXCEPT ![h1[self].left].parent = Null], LAMBDA h2 :
                        [heap |-> rotate_right(h2, self), root |-> h1[self].left,
                         rot |-> RIGHT, ub |-> FALSE, nullrot |-> FALSE])
         ELSE [heap |-> rotate_right(h1, self), root |-> rt, rot |-> RIGHT, ub |-> FALSE,
               nullrot |-> (h1[self].left = Null)])

\* self.try_fix_balance(previous, inserted, root): the heap and the map's
\* root (passed by reference) afterwards, and the Rotation returned.
try_fix_balance(h, self, previous, inserted, rt) ==
    Bind(IF h[self].left # Null THEN h[h[self].left].height ELSE 0, LAMBDA balance_l :
    Bind(IF h[self].right # Null THEN h[h[self].right].height ELSE 0, LAMBDA balance_r :
    Bind([h EXCEPT ![self].balance = balance_r - balance_l], LAMBDA h0 :
         IF h0[self].balance = 0
         THEN [heap |-> h0, root |-> rt, rot |-> NONE, ub |-> FALSE, nullrot |-> FALSE]
         ELSE IF h0[self].balance > 1 THEN fix_left(h0, self, previous, inserted, rt)
         ELSE IF h0[self].balance < -1 THEN fix_right(h0, self, previous, inserted, rt)
         ELSE [heap |-> h0, root |-> rt, rot |-> NONE, ub |-> FALSE, nullrot |-> FALSE])))

\* self.propagate_height_down()
RECURSIVE propagate_height_down(_, _)
propagate_height_down(h, self) ==
    Bind(IF h[self].left # Null
         THEN Bind([h EXCEPT ![h[self].left].height = h[self].height - 1], LAMBDA g :
                   propagate_height_down(g, g[self].left))
         ELSE h, LAMBDA h1 :
         IF h1[self].right # Null
         THEN Bind([h1 EXCEPT ![h1[self].right].height = h1[self].height - 1], LAMBDA g :
                   propagate_height_down(g, g[self].right))
         ELSE h1)

\* The height update that opens insert_balance.
update_height(h, self) ==
    Bind(IF h[self].left # Null THEN h[h[self].left].height ELSE 0, LAMBDA height_l :
    Bind(IF h[self].right # Null THEN h[h[self].right].height ELSE 0, LAMBDA height_r :
         IF has_children(h, self)
         THEN IF height_l + 1 > height_r + 1
              THEN [h EXCEPT ![self].height = height_l + 1]
              ELSE [h EXCEPT ![self].height = height_r + 1]
         ELSE h))

\* self.insert_balance(previous, inserted, root): the heap and the root
\* afterwards; last is the node of the innermost call (the one that makes
\* no further call), steps the number of calls made, nullrot whether any
\* of them entered a rotation branch with a null child to promote.
RECURSIVE insert_balance(_, _, _, _, _)
insert_balance(h, self, previous, inserted, rt) ==
    Bind(update_height(h, self), LAMBDA h1 :
    Bind(try_fix_balance(h1, self, previous, inserted, rt), LAMBDA fix :
         IF fix.ub THEN [heap |-> fix.heap, root |-> fix.root, ub |-> TRUE,
                         nullrot |-> TRUE, last |-> self, steps |-> 1]
         ELSE
           Bind(IF fix.rot # NONE /\ fix.heap[self].parent # Null
                THEN propagate_height_down(fix.heap, fix.heap[self].parent)
                ELSE fix.heap, LAMBDA h3 :
                IF h3[self].parent # Null
                THEN Bind(insert_balance(h3, h3[self].parent, self, inserted, fix.root),
                          LAMBDA up :
                          [up EXCEPT !.nullrot = up.nullrot \/ fix.nullrot,
                                     !.steps = up.steps + 1])
                ELSE [heap |-> h3, root |-> fix.root, ub |-> FALSE,
                      nullrot |-> fix.nullrot, last |-> self, steps |-> 1])))

(* ------------------------------ AVLmap --------------------------------- *)
\* The descent loop of operator[]: the node holding key, or the last node
\* visited when the key is absent.
RECURSIVE descend(_, _, _)
descend(h, current, key) ==
    IF key = h[current].key THEN current
    ELSE IF key < h[current].key
         THEN IF h[current].left = Null THEN current ELSE descend(h, h[current].left, key)
         ELSE IF h[current].right = Null THEN current ELSE descend(h, h[current].right, key)

\* The descent loop of search_node: the node found, Null for std::nullopt.
RECURSIVE search_loop(_, _, _)
search_loop(h, current, key) ==
    IF key = h[current].key THEN current
    ELSE IF key < h[current].key
         THEN IF h[current].left = Null THEN Null ELSE search_loop(h, h[current].left, key)
         ELSE IF h[current].right = Null THEN Null ELSE search_loop(h, h[current].right, key)

\* search_node that looks at the root only (a variant for C7).
search_node_root_only(h, rt, key) ==
    IF rt = Null THEN Null ELSE IF h[rt].key = key THEN rt ELSE Null

\* AVLmap::search_node(key)
search_node(h, rt, key) == IF rt = Null THEN Null ELSE search_loop(h, rt, key)

\* AVLmap::find(key): the cursor's p_node; end_it holds nullptr.
find(h, rt, key) == search_node(h, rt, key)

\* AVLmap::begin()
begin(h, rt) == IF rt # Null THEN first(h, rt) ELSE Null

\* insert_at without the final size_++ (a variant for C4).
insert_at_no_count(h, rt, sz, key, current) ==
    Bind(CreateNode(h, key), LAMBDA c :
    Bind(add_child(c.heap, current, c.node), LAMBDA h1 :
    Bind(insert_balance(h1, c.node, Null, c.node, rt), LAMBDA b :
         [heap |-> b.heap, root |-> b.root, size |-> sz,
          node |-> c.node, ub |-> b.ub,
          nullrot |-> b.nullrot, last |-> b.last, steps |-> b.steps])))

\* operator[] on a non-empty map whose descent stopped at `current`
\* without finding key: the new leaf, its linking and the rebalancing walk.
insert_at(h, rt, sz, key, current) ==
    Bind(CreateNode(h, key), LAMBDA c :
    Bind(add_child(c.heap, current, c.node), LAMBDA h1 :
    Bind(insert_balance(h1, c.node, Null, c.node, rt), LAMBDA b :
         [heap |-> b.heap, root |-> b.root,
          size |-> IF b.ub THEN sz ELSE sz + 1,
          node |-> c.node, ub |-> b.ub,
          nullrot |-> b.nullrot, last |-> b.last, steps |-> b.steps])))

\* AVLmap::operator[](key): heap, root and size_ afterwards, the node whose
\* value is returned by reference, and what insert_balance reported (no
\* walk, steps = 0, when the map was empty or held the key).
Index(h, rt, sz, key) ==
    IF rt = Null
    THEN Bind(CreateNode(h, key), LAMBDA c :
              [heap |-> c.heap, root |-> c.node, size |-> sz + 1,
               node |-> c.node, ub |-> FALSE,
               nullrot |-> FALSE, last |-> Null, steps |-> 0])
    ELSE Bind(descend(h, rt, key), LAMBDA current :
              IF h[current].key = key
              THEN [heap |-> h, root |-> rt, size |-> sz, node |-> current, ub |-> FALSE,
                    nullrot |-> FALSE, last |-> Null, steps |-> 0]
              ELSE insert_at(h, rt, sz, key, current))

\* erase of a node without children.
erase_leaf(h, rt, sz, node) ==
    Bind(h[node].parent, LAMBDA parent :
    Bind(IF is_left_child(h, node) THEN [h EXCEPT ![parent].left = Null] ELSE h,
         LAMBDA h1 :
    Bind(IF is_right_child(h1, node) THEN [h1 EXCEPT ![parent].right = Null] ELSE h1,
         LAMBDA h2 :
         [heap |-> DeleteNode(h2, node),
          root |-> IF rt = node THEN Null ELSE rt,
          size |-> sz - 1])))

\* erase_splice without the size_-- (a variant for C6).
erase_splice_no_count(h, rt, sz, node, only_child) ==
    Bind(h[node].parent, LAMBDA parent :
    Bind(IF is_left_child(h, node) THEN [h EXCEPT ![parent].left = only_child] ELSE h,
         LAMBDA h1 :
    Bind(IF is_right_child(h1, node) THEN [h1 EXCEPT ![parent].right = only_child] ELSE h1,
         LAMBDA h2 :
    Bind([h2 EXCEPT ![only_child].parent = parent], LAMBDA h3 :
         [heap |-> DeleteNode(h3, node),
          root |-> IF rt = node THEN only_child ELSE rt,
          size |-> sz]))))

\* erase_splice without only_child->parent = parent (a variant for C15).
erase_splice_no_parent(h, rt, sz, node, only_child) ==
    Bind(h[node].parent, LAMBDA parent :
    Bind(IF is_left_child(h, node) THEN [h EXCEPT ![parent].left = only_child] ELSE h,
         LAMBDA h1 :
    Bind(IF is_right_child(h1, node) THEN [h1 EXCEPT ![parent].right = only_child] ELSE h1,
         LAMBDA h2 :
         [heap |-> DeleteNode(h2, node),
          root |-> IF rt = node THEN only_child ELSE rt,
          size |-> sz - 1])))

\* erase of a node with exactly one child.
erase_splice(h, rt, sz, node, only_child) ==
    Bind(h[node].parent, LAMBDA parent :
    Bind(IF is_left_child(h, node) THEN [h EXCEPT ![parent].left = only_child] ELSE h,
         LAMBDA h1 :
    Bind(IF is_right_child(h1, node) THEN [h1 EXCEPT ![parent].right = only_child] ELSE h1,
         LAMBDA h2 :
    Bind([h2 EXCEPT ![only_child].parent = parent], LAMBDA h3 :
         [heap |-> DeleteNode(h3, node),
          root |-> IF rt = node THEN only_child ELSE rt,
          size |-> sz - 1]))))

RECURSIVE erase(_, _, _, _)

\* erase that moves the predecessor's key but not its value into a node
\* with two children (a variant for C5).
erase_key_only(h, rt, sz, node) ==
    IF node = Null THEN [heap |-> h, root |-> rt, size |-> sz]
    ELSE IF ~has_children(h, node) THEN erase_leaf(h, rt, sz, node)
    ELSE IF get_only_child(h, node) # Null
         THEN erase_splice(h, rt, sz, node, get_only_child(h, node))
    ELSE Bind(last(h, h[node].left), LAMBDA predecessor :
         Bind([h EXCEPT ![node].key = h[predecessor].key], LAMBDA h2 :
              erase(h2, rt, sz, predecessor)))

\* erase that counts the end cursor as a removal (a variant for C12).
erase_end_counted(h, rt, sz, node) ==
    IF node = Null THEN [heap |-> h, root |-> rt, size |-> sz - 1]
    ELSE IF ~has_children(h, node) THEN erase_leaf(h, rt, sz, node)
    ELSE IF get_only_child(h, node) # Null
         THEN erase_splice(h, rt, sz, node, get_only_child(h, node))
    ELSE Bind(last(h, h[node].left), LAMBDA predecessor :
         Bind([h EXCEPT ![node].key = h[predecessor].key,
                        ![node].value = h[predecessor].value], LAMBDA h2 :
              erase(h2, rt, sz, predecessor)))

\* AVLmap::erase(it) with it.p_node = node.
erase(h, rt, sz, node) ==
    IF node = Null THEN [heap |-> h, root |-> rt, size |-> sz]
    ELSE IF ~has_children(h, node) THEN erase_leaf(h, rt, sz, node)
    ELSE IF get_only_child(h, node) # Null
         THEN erase_splice(h, rt, sz, node, get_only_child(h, node))
    ELSE Bind(last(h, h[node].left), LAMBDA predecessor :
         Bind([h EXCEPT ![node].key = h[predecessor].key,
                        ![node].value = h[predecessor].value], LAMBDA h2 :
              erase(h2, rt, sz, predecessor)))

\* AVLmap::clear(): the deletion queue loop.
RECURSIVE clear_loop(_, _, _)
clear_loop(h, deletion_queue, sz) ==
    IF deletion_queue = <<>> THEN [heap |-> h, size |-> sz]
    ELSE Bind(Head(deletion_queue), LAMBDA to_delete :
         Bind(IF h[to_delete].left # Null
              THEN Append(deletion_queue, h[to_delete].left) ELSE deletion_queue,
              LAMBDA q1 :
         Bind(IF h[to_delete].right # Null
              THEN Append(q1, h[to_delete].right) ELSE q1, LAMBDA q2 :
         Bind(DeleteNode(h, to_delete), LAMBDA h1 :
         Bind(Tail(q2), LAMBDA q3 :
              clear_loop(h1, q3, sz - 1))))))

clear(h, rt, sz) ==
    IF rt = Null THEN [heap |-> h, root |-> rt, size |-> sz]
    ELSE Bind(clear_loop(h, <<rt>>, sz), LAMBDA r :
              [heap |-> r.heap, root |-> Null, size |-> r.size])

\* The insert_list loop of the copy constructor and of copy assignment:
\* self[current->Key()] = current->Value() in breadth-first order of rhs.
RECURSIVE copy_loop(_, _, _, _)
copy_loop(h, insert_list, rt, sz) ==
    IF insert_list = <<>> THEN [heap |-> h, root |-> rt, size |-> sz, ub |-> FALSE]
    ELSE Bind(Head(insert_list), LAMBDA current :
         Bind(Index(h, rt, sz, h[current].key), LAMBDA r :
              IF r.ub THEN [heap |-> r.heap, root |-> r.root, size |-> r.size, ub |-> TRUE]
              ELSE
         Bind([r.heap EXCEPT ![r.node].value = r.heap[current].value], LAMBDA h1 :
         Bind(IF h1[current].left # Null
              THEN Append(insert_list, h1[current].left) ELSE insert_list, LAMBDA q1 :
         Bind(IF h1[current].right # Null
              THEN Append(q1, h1[current].right) ELSE q1, LAMBDA q2 :
         Bind(Tail(q2), LAMBDA q3 :
              copy_loop(h1, q3, r.root, r.size)))))))

\* A copy constructor that copies the root pointer (a variant for C9).
copy_construct_shallow(h, rhsRoot, rhsSize) ==
    [heap |-> h, root |-> rhsRoot, size |-> rhsSize, ub |-> FALSE]

\* AVLmap(const AVLmap& rhs): size_(rhs.size_), root from its default
\* member initializer.
copy_construct(h, rhsRoot, rhsSize) ==
    IF rhsRoot = Null THEN [heap |-> h, root |-> Null, size |-> rhsSize, ub |-> FALSE]
    ELSE copy_loop(h, <<rhsRoot>>, Null, rhsSize)

\* Copy assignment without the test for self-assignment (a variant for
\* C13): rhs.root is read after clear() has run.
copy_assign_no_self_test(h, rt, sz, rhsRoot, same) ==
    Bind(clear(h, rt, sz), LAMBDA c :
         IF (IF same THEN c.root ELSE rhsRoot) = Null
         THEN [heap |-> c.heap, root |-> c.root, size |-> c.size, ub |-> FALSE]
         ELSE copy_loop(c.heap, <<rhsRoot>>, c.root, c.size))

\* operator=(const AVLmap& rhs); same is (this == &rhs).
copy_assign(h, rt, sz, rhsRoot, same) ==
    IF same THEN [heap |-> h, root |-> rt, size |-> sz, ub |-> FALSE]
    ELSE Bind(clear(h, rt, sz), LAMBDA c :
              IF rhsRoot = Null
              THEN [heap |-> c.heap, root |-> c.root, size |-> c.size, ub |-> FALSE]
              ELSE copy_loop(c.heap, <<rhsRoot>>, c.root, c.size))

\* AVLmap(AVLmap&& rhs): root and size_ are taken with std::exchange, which
\* leaves nullptr and 0 in rhs.
move_construct(h, rhsRoot, rhsSize) ==
    [heap |-> h, root |-> rhsRoot, size |-> rhsSize, rhsRoot |-> Null, rhsSize |-> 0]

\* Move assignment without the clear() that opens it (a variant for C11).
move_assign_no_clear(h, rt, sz, rhsRoot, rhsSize, same) ==
    [heap |-> h, root |-> rhsRoot, size |-> rhsSize, rhsRoot |-> Null, rhsSize |-> 0]

\* operator=(AVLmap&& rhs): clear(), then the two exchanges; when rhs is
\* *this (same) the exchanges read the fields clear() has just left.
move_assign(h, rt, sz, rhsRoot, rhsSize, same) ==
    Bind(clear(h, rt, sz), LAMBDA c :
         [heap |-> c.heap,
          root |-> IF same THEN c.root ELSE rhsRoot,
          size |-> IF same THEN c.size ELSE rhsSize,
          rhsRoot |-> Null, rhsSize |-> 0])

\* Membership in a sequence (std::find over a list or a vector).
InSeq(x, q) == \E i \in 1..Len(q) : q[i] = x

\* AVLmap::sanityCheck(): the insert_list loop.
RECURSIVE sanity_loop(_, _, _, _, _)
sanity_loop(h, insert_list, seen_keys, measured_size, sz) ==
    IF insert_list = <<>> THEN measured_size = sz
    ELSE Bind(Head(insert_list), LAMBDA current :
         Bind(IF h[current].left # Null
              THEN Append(insert_list, h[current].left) ELSE insert_list, LAMBDA q1 :
         Bind(IF h[current].right # Null
              THEN Append(q1, h[current].right) ELSE q1, LAMBDA q2 :
         Bind(Tail(q2), LAMBDA q3 :
              IF InSeq(h[current].key, seen_keys) THEN FALSE
              ELSE IF h[current].left # Null
                      /\ h[current].value <= h[h[current].left].value THEN FALSE
              ELSE IF h[current].right # Null
                      /\ h[current].value >= h[h[current].right].value THEN FALSE
              ELSE IF InSeq(current, q3) THEN FALSE
              ELSE Bind(Append(seen_keys, h[current].key), LAMBDA seen :
                        sanity_loop(h, q3, seen, measured_size + 1, sz))))))

sanityCheck(h, rt, sz) ==
    IF rt = Null THEN TRUE ELSE sanity_loop(h, <<rt>>, <<>>, 0, sz)

(* ------------------------- reading a tree ------------------------------ *)
\* Nodes reachable from the given set through left and right links.
RECURSIVE ReachFrom(_, _, _)
ReachFrom(h, frontier, seen) ==
    IF frontier = {} THEN seen
    ELSE Bind(seen \cup frontier, LAMBDA done :
         Bind(({h[n].left : n \in frontier} \cup {h[n].right : n \in frontier})
                \ ({Null} \cup done), LAMBDA kids :
              ReachFrom(h, kids, done)))

Reach(h, rt) == IF rt = Null THEN {} ELSE ReachFrom(h, {rt}, {})

KeysOf(h, rt) == {h[n].key : n \in Reach(h, rt)}

Pairs(h, rt) == {<<h[n].key, h[n].value>> : n \in Reach(h, rt)}

\* The links below rt, handle by handle.
Shape(h, rt) == [n \in Reach(h, rt) |-> <<h[n].key, h[n].left, h[n].right, h[n].parent>>]

\* Ascending sequence of a finite set of integers.
RECURSIVE SortedSeq(_)
SortedSeq(S) ==
    IF S = {} THEN <<>>
    ELSE LET m == CHOOSE x \in S : \A y \in S : x <= y
         IN <<m>> \o SortedSeq(S \ {m})

\* Keys met from begin() by ++ until the cursor equals end(); the walk is
\* cut after `fuel` steps so that a broken successor chain still ends.
RECURSIVE WalkFrom(_, _, _)
WalkFrom(h, n, fuel) ==
    IF n = Null \/ fuel = 0 THEN <<>>
    ELSE <<h[n].key>> \o WalkFrom(h, increment(h, n), fuel - 1)

Traverse(h, rt) == WalkFrom(h, begin(h, rt), Cardinality(DOMAIN h) + 1)

(* --------------------------- operations -------------------------------- *)
\* op is the call made last: its name, the map it was made on, the other
\* map of a copy (rhs), its key, what it returned (val, node), whether the
\* key was in the map (hit), whether it ran into a null dereference (ub),
\* and, for operator[], what its insert_balance walk reported (nullrot,
\* last, steps).
\* copied holds the maps whose content was made by a copy of the other map.
NoOp == [name |-> "init", map |-> "A", rhs |-> "A", key |-> 0, val |-> 0,
         node |-> Null, hit |-> FALSE, ub |-> FALSE,
         nullrot |-> FALSE, last |-> Null, steps |-> 0]

\* m[k]: get-or-insert, the value read through the returned reference.
IndexCall(m, k) ==
    /\ m \in live
    /\ (search_node(heap, root[m], k) = Null => HasFree(heap))
    /\ \E r \in {Index(heap, root[m], size_[m], k)} :
          /\ heap' = r.heap
          /\ root' = [root EXCEPT ![m] = r.root]
          /\ size_' = [size_ EXCEPT ![m] = r.size]
          /\ op' = [name |-> "index", map |-> m, rhs |-> m, key |-> k,
                    val |-> r.heap[r.node].value, node |-> r.node,
                    hit |-> (k \in KeysOf(heap, root[m])), ub |-> r.ub,
                    nullrot |-> r.nullrot, last |-> r.last, steps |-> r.steps]
    /\ UNCHANGED <<live, copied>>

IndexOp(m, k) == IndexCall(m, k) /\ UNCHANGED <<nIns, nErase>>

\* m[k] = v: operator[] and a write through the returned reference.
\* When operator[] does not return, the write is never made.
WriteOp(m, k, v) ==
    /\ m \in live
    /\ (search_node(heap, root[m], k) = Null => HasFree(heap))
    /\ \E r \in {Index(heap, root[m], size_[m], k)} :
          /\ heap' = IF r.ub THEN r.heap
                            ELSE [r.heap EXCEPT ![r.node].value = v]
          /\ root' = [root EXCEPT ![m] = r.root]
          /\ size_' = [size_ EXCEPT ![m] = r.size]
          /\ op' = [name |-> "write", map |-> m, rhs |-> m, key |-> k,
                    val |-> v, node |-> r.node,
                    hit |-> (k \in KeysOf(heap, root[m])), ub |-> r.ub,
                    nullrot |-> r.nullrot, last |-> r.last, steps |-> r.steps]
    /\ UNCHANGED <<live, copied, nIns, nErase>>

\* m.find(k)
FindOp(m, k) ==
    /\ m \in live
    /\ op' = [name |-> "find", map |-> m, rhs |-> m, key |-> k, val |-> 0,
              node |-> find(heap, root[m], k),
              hit |-> (k \in KeysOf(heap, root[m])), ub |-> FALSE,
              nullrot |-> FALSE, last |-> Null, steps |-> 0]
    /\ UNCHANGED <<heap, root, size_, live, copied, nIns, nErase>>

\* m.erase(m.find(k)) for a present key k.
EraseCall(m, k) ==
    /\ m \in live
    /\ find(heap, root[m], k) # Null
    /\ \E r \in {erase(heap, root[m], size_[m], find(heap, root[m], k))} :
          /\ heap' = r.heap
          /\ root' = [root EXCEPT ![m] = r.root]
          /\ size_' = [size_ EXCEPT ![m] = r.size]
          /\ op' = [name |-> "erase", map |-> m, rhs |-> m, key |-> k, val |-> 0,
                    node |-> find(heap, root[m], k), hit |-> TRUE, ub |-> FALSE,
                    nullrot |-> FALSE, last |-> Null, steps |-> 0]
    /\ UNCHANGED <<live, copied>>

EraseOp(m, k) == EraseCall(m, k) /\ UNCHANGED <<nIns, nErase>>

\* m.erase(m.end())
EraseEndOp(m) ==
    /\ m \in live
    /\ \E r \in {erase(heap, root[m], size_[m], Null)} :
          /\ heap' = r.heap
          /\ root' = [root EXCEPT ![m] = r.root]
          /\ size_' = [size_ EXCEPT ![m] = r.size]
    /\ op' = [name |-> "erase_end", map |-> m, rhs |-> m, key |-> 0, val |-> 0,
              node |-> Null, hit |-> FALSE, ub |-> FALSE,
              nullrot |-> FALSE, last |-> Null, steps |-> 0]
    /\ UNCHANGED <<live, copied, nIns, nErase>>

(* ------------- Spec: one map, insertions, writes, erasures ------------- *)
Keys == 1..MaxKey
Vals == 1..MaxVal

\* AVLmap(): root(nullptr), size_(0), on an arena of MaxKey slots.
Init ==
    /\ heap = [i \in 1..MaxKey |-> FreeNode]
    /\ root = [m \in Maps |-> Null]
    /\ size_ = [m \in Maps |-> 0]
    /\ live = {"A"}
    /\ copied = {}
    /\ op = NoOp
    /\ nIns = 0
    /\ nErase = 0

Next ==
    \/ \E k \in Keys : IndexOp("A", k)
    \/ \E k \in Keys, v \in Vals : WriteOp("A", k, v)
    \/ \E k \in Keys : FindOp("A", k)
    \/ \E k \in Keys : EraseOp("A", k)

Spec == Init /\ [][Next]_vars

(* ------------- SpecIns: insertions of distinct keys only --------------- *)
KeysIns == 1..MaxKeyIns

InitIns ==
    /\ heap = [i \in 1..MaxKeyIns |-> FreeNode]
    /\ root = [m \in Maps |-> Null]
    /\ size_ = [m \in Maps |-> 0]
    /\ live = {"A"}
    /\ copied = {}
    /\ op = NoOp
    /\ nIns = 0
    /\ nErase = 0

\* m[k] for a key k that is not in the map.
InsertOp(m, k) ==
    /\ m \in live
    /\ search_node(heap, root[m], k) = Null
    /\ IndexOp(m, k)

NextIns == \E k \in KeysIns : InsertOp("A", k)

SpecIns == InitIns /\ [][NextIns]_vars

(* ------ SpecCount: N distinct insertions, then M erasures -------------- *)
KeysCount == 1..MaxKeyCount

InitCount ==
    /\ heap = [i \in 1..MaxKeyCount |-> FreeNode]
    /\ root = [m \in Maps |-> Null]
    /\ size_ = [m \in Maps |-> 0]
    /\ live = {"A"}
    /\ copied = {}
    /\ op = NoOp
    /\ nIns = 0
    /\ nErase = 0

CountInsert(k) ==
    /\ nErase = 0
    /\ search_node(heap, root["A"], k) = Null
    /\ IndexCall("A", k)
    /\ nIns' = nIns + 1
    /\ UNCHANGED nErase

CountErase(k) ==
    /\ EraseCall("A", k)
    /\ nErase' = nErase + 1
    /\ UNCHANGED nIns

NextCount ==
    \/ \E k \in KeysCount : CountInsert(k)
    \/ \E k \in KeysCount : CountErase(k)

SpecCount == InitCount /\ [][NextCount]_vars

(* --- SpecDeep: a build-up workload, then one insertion of any absent key --- *)
KeysDeep == 1..MaxKeyDeep

\* Keys inserted level by level: a tree of 55 nodes in which no insertion
\* rotates and every stored height is the true one.
DeepLevelOrder ==
    << 48, 30, 61, 12, 43, 56, 66, 9, 22, 40, 46, 53, 59, 64, 68, 3, 11,
       15, 25, 33, 42, 45, 47, 51, 55, 58, 60, 63, 65, 67, 2, 4, 10, 14,
       17, 24, 26, 32, 34, 41, 44, 50, 52, 54, 57, 62, 1, 13, 16, 20, 23,
       31, 49, 19, 21 >>

\* Keys inserted next, at three leaves: each run of insertions makes double
\* rotations there that leave stored heights of -1, -2 and -3 on the leaf.
DeepLocal ==
    << 29, 27, 28, 8, 5, 6, 7, 39, 35, 36, 37, 38 >>

\* Keys erased after that (negated), each at a node with at most one child.
DeepPrune ==
    << -1, -2, -3, -5, -6, -8, -7, -10, -11, -9, -13, -14, -23, -24, -25,
       -27, -29, -28, -31, -32, -33, -35, -36, -37, -39, -38, -41, -42,
       -40, -44, -45, -46, -47, -43, -49, -50, -51, -52, -53, -54, -55,
       -56, -57, -58, -59, -60, -61, -62, -63, -64, -65, -66, -67, -68 >>

\* The workload: m[k] for k > 0, m.erase(m.find(-k)) for k < 0.
DeepBuild == DeepLevelOrder \o DeepLocal \o DeepPrune

InitDeep ==
    /\ heap = [i \in 1..MaxKeyDeep |-> FreeNode]
    /\ root = [m \in Maps |-> Null]
    /\ size_ = [m \in Maps |-> 0]
    /\ live = {"A"}
    /\ copied = {}
    /\ op = NoOp
    /\ nIns = 0
    /\ nErase = 0

\* The next call of the workload, when it is an insertion.
DeepInsert ==
    /\ nIns + nErase < Len(DeepBuild)
    /\ DeepBuild[nIns + nErase + 1] > 0
    /\ search_node(heap, root["A"], DeepBuild[nIns + nErase + 1]) = Null
    /\ IndexCall("A", DeepBuild[nIns + nErase + 1])
    /\ nIns' = nIns + 1
    /\ UNCHANGED nErase

\* The next call of the workload, when it is an erasure.
DeepErase ==
    /\ nIns + nErase < Len(DeepBuild)
    /\ DeepBuild[nIns + nErase + 1] < 0
    /\ EraseCall("A", 0 - DeepBuild[nIns + nErase + 1])
    /\ nErase' = nErase + 1
    /\ UNCHANGED nIns

\* After the workload: m[k] for any key k that is not in the map.
DeepProbe(k) ==
    /\ nIns + nErase = Len(DeepBuild)
    /\ search_node(heap, root["A"], k) = Null
    /\ IndexCall("A", k)
    /\ nIns' = nIns + 1
    /\ UNCHANGED nErase

NextDeep ==
    \/ DeepInsert
    \/ DeepErase
    \/ \E k \in KeysDeep : DeepProbe(k)

SpecDeep == InitDeep /\ [][NextDeep]_vars

(* ------------- SpecCopy: two maps, copies and destruction -------------- *)
KeysCopy == 1..MaxKeyCopy

\* Map A default-constructed, map B not constructed yet.
InitCopy ==
    /\ heap = [i \in 1..(2 * MaxKeyCopy) |-> FreeNode]
    /\ root = [m \in Maps |-> Null]
    /\ size_ = [m \in Maps |-> 0]
    /\ live = {"A"}
    /\ copied = {}
    /\ op = NoOp
    /\ nIns = 0
    /\ nErase = 0

\* AVLmap dst;
DefaultConstructOp(dst) ==
    /\ dst \notin live
    /\ live' = live \cup {dst}
    /\ root' = [root EXCEPT ![dst] = Null]
    /\ size_' = [size_ EXCEPT ![dst] = 0]
    /\ op' = [name |-> "construct", map |-> dst, rhs |-> dst, key |-> 0, val |-> 0,
              node |-> Null, hit |-> FALSE, ub |-> FALSE,
              nullrot |-> FALSE, last |-> Null, steps |-> 0]
    /\ UNCHANGED <<heap, copied, nIns, nErase>>

\* AVLmap dst(src);
CopyConstructOp(dst, src) ==
    /\ dst \notin live
    /\ src \in live
    /\ \E r \in {copy_construct(heap, root[src], size_[src])} :
          /\ heap' = r.heap
          /\ root' = [root EXCEPT ![dst] = r.root]
          /\ size_' = [size_ EXCEPT ![dst] = r.size]
          /\ op' = [name |-> "copy_construct", map |-> dst, rhs |-> src, key |-> 0,
                    val |-> 0, node |-> Null, hit |-> FALSE, ub |-> r.ub,
                    nullrot |-> FALSE, last |-> Null, steps |-> 0]
    /\ live' = live \cup {dst}
    /\ copied' = copied \cup {dst}
    /\ UNCHANGED <<nIns, nErase>>

\* dst = src; dst and src may be the same object.
CopyAssignOp(dst, src) ==
    /\ dst \in live
    /\ src \in live
    /\ \E r \in {copy_assign(heap, root[dst], size_[dst], root[src], dst = src)} :
          /\ heap' = r.heap
          /\ root' = [root EXCEPT ![dst] = r.root]
          /\ size_' = [size_ EXCEPT ![dst] = r.size]
          /\ op' = [name |-> "copy_assign", map |-> dst, rhs |-> src, key |-> 0,
                    val |-> 0, node |-> Null, hit |-> FALSE, ub |-> r.ub,
                    nullrot |-> FALSE, last |-> Null, steps |-> 0]
    /\ copied' = IF dst = src THEN copied ELSE copied \cup {dst}
    /\ UNCHANGED <<live, nIns, nErase>>

\* ~AVLmap(): clear(); the dead object's fields are then out of reach and
\* are kept as null and zero.
DestroyOp(m) ==
    /\ m \in live
    /\ live # {m}
    /\ \E r \in {clear(heap, root[m], size_[m])} :
          /\ heap' = r.heap
          /\ root' = [root EXCEPT ![m] = Null]
          /\ size_' = [size_ EXCEPT ![m] = 0]
    /\ live' = live \ {m}
    /\ copied' = copied \ {m}
    /\ op' = [name |-> "destroy", map |-> m, rhs |-> m, key |-> 0, val |-> 0,
              node |-> Null, hit |-> FALSE, ub |-> FALSE,
              nullrot |-> FALSE, last |-> Null, steps |-> 0]
    /\ UNCHANGED <<nIns, nErase>>

\* AVLmap dst(std::move(src)); src stays a live, moved-from object.
MoveConstructOp(dst, src) ==
    /\ dst \notin live
    /\ src \in live
    /\ \E r \in {move_construct(heap, root[src], size_[src])} :
          /\ heap' = r.heap
          /\ root' = [root EXCEPT ![src] = r.rhsRoot, ![dst] = r.root]
          /\ size_' = [size_ EXCEPT ![src] = r.rhsSize, ![dst] = r.size]
    /\ op' = [name |-> "move_construct", map |-> dst, rhs |-> src, key |-> 0,
              val |-> 0, node |-> Null, hit |-> FALSE, ub |-> FALSE,
              nullrot |-> FALSE, last |-> Null, steps |-> 0]
    /\ live' = live \cup {dst}
    /\ UNCHANGED <<copied, nIns, nErase>>

\* dst = std::move(src); dst and src may be the same object.  op.node is
\* the root dst had when the call was made.
MoveAssignOp(dst, src) ==
    /\ dst \in live
    /\ src \in live
    /\ \E r \in {move_assign(heap, root[dst], size_[dst], root[src], size_[src],
                             dst = src)} :
          /\ heap' = r.heap
          /\ root' = [[root EXCEPT ![src] = r.rhsRoot] EXCEPT ![dst] = r.root]
          /\ size_' = [[size_ EXCEPT ![src] = r.rhsSize] EXCEPT ![dst] = r.size]
    /\ op' = [name |-> "move_assign", map |-> dst, rhs |-> src, key |-> 0,
              val |-> 0, node |-> root[dst], hit |-> FALSE, ub |-> FALSE,
              nullrot |-> FALSE, last |-> Null, steps |-> 0]
    /\ UNCHANGED <<live, copied, nIns, nErase>>

\* Map A lives throughout; B is the second object, built from A or empty,
\* assigned to and from A, and destroyed.
NextCopy ==
    \/ \E m \in Maps, k \in KeysCopy, v \in Vals : WriteOp(m, k, v)
    \/ \E m \in Maps, k \in KeysCopy : InsertOp(m, k)
    \/ \E m \in Maps, k \in KeysCopy : EraseOp(m, k)
    \/ DefaultConstructOp("B")
    \/ CopyConstructOp("B", "A")
    \/ \E dst \in Maps, src \in Maps : CopyAssignOp(dst, src)
    \/ DestroyOp("B")

SpecCopy == InitCopy /\ [][NextCopy]_vars

(* -- SpecEnd: one map, writes, erasures, erase of end(), self-assignment -- *)
KeysEnd == 1..MaxKeyEnd

InitEnd ==
    /\ heap = [i \in 1..MaxKeyEnd |-> FreeNode]
    /\ root = [m \in Maps |-> Null]
    /\ size_ = [m \in Maps |-> 0]
    /\ live = {"A"}
    /\ copied = {}
    /\ op = NoOp
    /\ nIns = 0
    /\ nErase = 0

NextEnd ==
    \/ \E k \in KeysEnd, v \in Vals : WriteOp("A", k, v)
    \/ \E k \in KeysEnd : InsertOp("A", k)
    \/ \E k \in KeysEnd : EraseOp("A", k)
    \/ EraseEndOp("A")
    \/ CopyAssignOp("A", "A")

SpecEnd == InitEnd /\ [][NextEnd]_vars

(* ------------- SpecMove: two maps, moves and destruction --------------- *)
KeysMove == 1..MaxKeyMove

\* Map A default-constructed, map B not constructed yet.
InitMove ==
    /\ heap = [i \in 1..(2 * MaxKeyMove) |-> FreeNode]
    /\ root = [m \in Maps |-> Null]
    /\ size_ = [m \in Maps |-> 0]
    /\ live = {"A"}
    /\ copied = {}
    /\ op = NoOp
    /\ nIns = 0
    /\ nErase = 0

NextMove ==
    \/ \E m \in Maps, k \in KeysMove, v \in Vals : WriteOp(m, k, v)
    \/ \E m \in Maps, k \in KeysMove : EraseOp(m, k)
    \/ DefaultConstructOp("B")
    \/ MoveConstructOp("B", "A")
    \/ \E dst \in Maps, src \in Maps : MoveAssignOp(dst, src)
    \/ DestroyOp("B")

SpecMove == InitMove /\ [][NextMove]_vars

(* ============================ properties =============================== *)
Max(a, b) == IF a > b THEN a ELSE b

\* Number of nodes on the longest downward path from n (0 for null).
RECURSIVE ActualHeight(_, _)
ActualHeight(h, n) ==
    IF n = Null THEN 0
    ELSE 1 + Max(ActualHeight(h, h[n].left), ActualHeight(h, h[n].right))

\* Left subtree, node, right subtree; cut at depth `fuel`.
RECURSIVE InOrderFrom(_, _, _)
InOrderFrom(h, n, fuel) ==
    IF n = Null \/ fuel = 0 THEN <<>>
    ELSE InOrderFrom(h, h[n].left, fuel - 1) \o <<h[n].key>>
           \o InOrderFrom(h, h[n].right, fuel - 1)

InOrder(h, rt) == InOrderFrom(h, rt, Cardinality(DOMAIN h) + 1)

RemoveKey(seq, k) == SelectSeq(seq, LAMBDA x : x # k)

BSTOrdered(h, rt) ==
    \A n \in Reach(h, rt) :
        /\ \A x \in Reach(h, h[n].left) : h[x].key < h[n].key
        /\ \A x \in Reach(h, h[n].right) : h[x].key > h[n].key

\* The nodes a map owns, with all their fields.
Owned(h, rt) == [n \in Reach(h, rt) |-> h[n]]

Other(m) == IF m = "A" THEN "B" ELSE "A"

\* C1: after any interleaving of operator[] insertions and erasures of
\* present keys, every node has only smaller keys in its left subtree and
\* only greater keys in its right subtree.
C1_BSTOrdering == BSTOrdered(heap, root["A"])

\* C1 witness: an erase has just run on a tree that still has a node with
\* two non-empty subtrees.
C1_Witness ==
    /\ op.name = "erase"
    /\ \E n \in Reach(heap, root["A"]) : heap[n].left # Null /\ heap[n].right # Null

\* C2 (as claimed): in an insert-only run of distinct keys every node's
\* balance factor, from the actual subtree heights, is -1, 0 or 1.
C2_BalanceFactor ==
    \A n \in Reach(heap, root["A"]) :
        ActualHeight(heap, heap[n].right) - ActualHeight(heap, heap[n].left) \in {-1, 0, 1}

\* C3: begin() and ++ up to end() yield the stored keys in ascending order,
\* each once, in size() steps; begin() is end() on the empty map.
C3_SortedTraversal ==
    /\ Traverse(heap, root["A"]) = SortedSeq(KeysOf(heap, root["A"]))
    /\ Len(Traverse(heap, root["A"])) = size_["A"]
    /\ (size_["A"] = 0 => begin(heap, root["A"]) = Null)

\* C3 witness: after an erase, a tree of three keys or more in which some
\* node's successor is reached by the upward walk.
C3_Witness ==
    /\ op.name = "erase"
    /\ Len(Traverse(heap, root["A"])) >= 3
    /\ \E n \in Reach(heap, root["A"]) :
          heap[n].right = Null /\ heap[n].parent # Null /\ increment(heap, n) # Null

C5_EraseExactly ==
    [][op'.name = "erase" =>
         LET k == op'.key
         IN /\ InOrder(heap', root'["A"]) = RemoveKey(InOrder(heap, root["A"]), k)
            /\ k \in KeysOf(heap, root["A"])
            /\ Pairs(heap', root'["A"]) =
                 {p \in Pairs(heap, root["A"]) : p[1] # k}]_vars

\* C5 witness: the node erased had two children (its handle is still in
\* use, now holding its predecessor's pair, a written value).
C5_Witness ==
    /\ op.name = "erase"
    /\ heap[op.node].alive
    /\ heap[op.node].value # 0
    /\ op.node \in Reach(heap, root["A"])

\* C6: after N insertions of distinct keys and then M erasures of present
\* keys, size() is N - M and is the number of nodes reachable from the root.
C6_SizeAccounting ==
    /\ size_["A"] = nIns - nErase
    /\ size_["A"] = Cardinality(Reach(heap, root["A"]))

\* C6 witness: three insertions and two erasures have been made.
C6_Witness == nIns >= 3 /\ nErase >= 2

\* C7: find(k) returns the node holding k, or the end cursor when k is
\* absent, and changes neither size() nor the tree nor any value.
C7_Find ==
    [][op'.name = "find" =>
         LET k == op'.key
             rt == root["A"]
         IN /\ IF k \in KeysOf(heap, rt)
               THEN op'.node \in Reach(heap, rt) /\ heap[op'.node].key = k
               ELSE op'.node = Null
            /\ heap' = heap
            /\ root' = root
            /\ size_' = size_]_vars

\* C7 witness: find has just missed a key in a map of two keys or more
\* below and above which keys are stored.
C7_Witness ==
    /\ op.name = "find"
    /\ op.node = Null
    /\ \E a, b \in KeysOf(heap, root["A"]) : a < op.key /\ op.key < b

\* C8 (as claimed): right after B is copy-constructed or copy-assigned from
\* A, B holds A's pairs, B.size() = A.size(), and that is the number of
\* nodes reachable from B's root.
C8_CopyEqual ==
    (op.name \in {"copy_construct", "copy_assign"} /\ op.map # op.rhs) =>
        /\ Pairs(heap, root[op.map]) = Pairs(heap, root[op.rhs])
        /\ size_[op.map] = size_[op.rhs]
        /\ size_[op.map] = Cardinality(Reach(heap, root[op.map]))

\* C9: two live maps never share a node, and a write, insertion or erasure
\* on one map leaves the nodes, root and size() of the other as they were.
C9_Independent ==
    /\ [](Reach(heap, root["A"]) \cap Reach(heap, root["B"]) = {})
    /\ [][op'.name \in {"write", "erase"} =>
            LET o == Other(op'.map)
            IN /\ Owned(heap', root'[o]) = Owned(heap, root[o])
               /\ root'[o] = root[o]
               /\ size_'[o] = size_[o]]_vars

\* C9 witness: B holds a copy of A's two keys and has just been written, so
\* that the two maps now differ in a value.
C9_Witness ==
    /\ op.name = "write"
    /\ op.map = "B"
    /\ "B" \in copied
    /\ Cardinality(KeysOf(heap, root["A"])) >= 2
    /\ KeysOf(heap, root["A"]) = KeysOf(heap, root["B"])
    /\ Pairs(heap, root["A"]) # Pairs(heap, root["B"])

\* C10 (as claimed): sanityCheck() is true of every map reached by
\* insertions and erasures, whatever the values stored.
C10_SanityCheck == sanityCheck(heap, root["A"], size_["A"])

\* Handles of the allocated nodes.
Allocated(h) == {n \in DOMAIN h : h[n].alive}

\* C11: a move from src to a distinct dst leaves src with a null root and
\* size() 0 and gives dst the very nodes, root and size() src had, creating
\* no node; a move assignment destroys every node dst owned before.
C11_Move ==
    [][(op'.name \in {"move_construct", "move_assign"} /\ op'.map # op'.rhs) =>
         LET dst == op'.map
             src == op'.rhs
             old == IF op'.name = "move_assign" THEN Reach(heap, root[dst]) ELSE {}
         IN /\ root'[src] = Null
            /\ size_'[src] = 0
            /\ root'[dst] = root[src]
            /\ size_'[dst] = size_[src]
            /\ Owned(heap', root'[dst]) = Owned(heap, root[src])
            /\ Pairs(heap', root'[dst]) = Pairs(heap, root[src])
            /\ Allocated(heap') = Allocated(heap) \ old
            /\ \A n \in old : ~heap'[n].alive]_vars

\* C11 witness: B, which owned nodes, has just been move-assigned from an A
\* of two keys or more; B's former root is freed and A is empty.
C11_Witness ==
    /\ op.name = "move_assign"
    /\ op.map = "B"
    /\ op.rhs = "A"
    /\ op.node # Null
    /\ ~heap[op.node].alive
    /\ Cardinality(Reach(heap, root["B"])) >= 2
    /\ root["A"] = Null

\* C12: erase(end()) changes nothing, on the empty map and on any other:
\* root, size(), every node and every pair stay, and no node is freed.
C12_EraseEnd ==
    [][op'.name = "erase_end" =>
         /\ root' = root
         /\ size_' = size_
         /\ Owned(heap', root'["A"]) = Owned(heap, root["A"])
         /\ Pairs(heap', root'["A"]) = Pairs(heap, root["A"])
         /\ Allocated(heap') = Allocated(heap)
         /\ heap' = heap]_vars

\* C12 witness: erase(end()) has just been called on a map of three keys
\* or more, one of them with a written value.
C12_Witness ==
    /\ op.name = "erase_end"
    /\ size_["A"] >= 3
    /\ Cardinality(Reach(heap, root["A"])) >= 3
    /\ \E p \in Pairs(heap, root["A"]) : p[2] # 0

\* C13: A = A leaves A's root, nodes (shape, keys, values) and size() as
\* they were.
C13_SelfAssign ==
    [][(op'.name = "copy_assign" /\ op'.map = op'.rhs) =>
         /\ root' = root
         /\ size_' = size_
         /\ Shape(heap', root'["A"]) = Shape(heap, root["A"])
         /\ Pairs(heap', root'["A"]) = Pairs(heap, root["A"])
         /\ Owned(heap', root'["A"]) = Owned(heap, root["A"])]_vars

\* C13 witness: A = A has just run on a map of three keys, one of them
\* with a written value.
C13_Witness ==
    /\ op.name = "copy_assign"
    /\ op.map = "A"
    /\ op.rhs = "A"
    /\ Cardinality(KeysOf(heap, root["A"])) >= 3
    /\ size_["A"] >= 3
    /\ \E p \in Pairs(heap, root["A"]) : p[2] # 0

\* C14 (as claimed): in an insert-only run of distinct keys every node's
\* stored height is at least 1 and is the number of nodes on the longest
\* downward path from the node to a leaf.
C14_StoredHeight ==
    \A n \in Reach(heap, root["A"]) :
        /\ heap[n].height >= 1
        /\ heap[n].height = ActualHeight(heap, n)

\* The <<parent, side>> links of the tree below rt that point at node c.
LinksTo(h, rt, c) ==
    {<<n, "left">> : n \in {x \in Reach(h, rt) : h[x].left = c}}
      \cup {<<n, "right">> : n \in {x \in Reach(h, rt) : h[x].right = c}}

\* C15: after any operator[] insertions and erasures the links form a tree:
\* the root is the one node with a null parent, every child's parent field
\* is the node that links to it, every allocated node is reachable from the
\* root, and by one path only (one incoming link, none for the root).
C15_TreeLinks ==
    LET rt == root["A"]
        R == Reach(heap, rt)
    IN /\ \A n \in R : (heap[n].parent = Null) <=> (n = rt)
       /\ \A n \in R :
            /\ heap[n].left # Null => heap[heap[n].left].parent = n
            /\ heap[n].right # Null => heap[heap[n].right].parent = n
       /\ \A n \in R : heap[n].alive
       /\ Allocated(heap) = R
       /\ \A n \in R : Cardinality(LinksTo(heap, rt, n)) = (IF n = rt THEN 0 ELSE 1)

\* C15 witness: operator[] has just inserted a key whose node a double
\* rotation promoted (the new node has two children), in a map of four keys.
C15_Witness ==
    /\ op.name \in {"index", "write"}
    /\ ~op.hit
    /\ heap[op.node].left # Null
    /\ heap[op.node].right # Null
    /\ size_["A"] >= 4

\* C16 (as claimed): a node keeps its key from creation to destruction, and
\* erase(cursor) destroys the node the cursor references.
C16_KeyImmutable ==
    [][/\ \A n \in DOMAIN heap :
             (heap[n].alive /\ heap'[n].alive) => heap'[n].key = heap[n].key
       /\ (op'.name = "erase" => ~heap'[op'.node].alive)]_vars

\* The node of the tree below rt with the greatest key smaller than k, and
\* the one with the smallest key greater than k; Null when there is none.
NodeBelow(h, rt, k) ==
    LET S == {x \in Reach(h, rt) : h[x].key < k}
    IN IF S = {} THEN Null ELSE CHOOSE x \in S : \A y \in S : h[y].key <= h[x].key

NodeAbove(h, rt, k) ==
    LET S == {x \in Reach(h, rt) : h[x].key > k}
    IN IF S = {} THEN Null ELSE CHOOSE x \in S : \A y \in S : h[y].key >= h[x].key

\* C17: in every reachable tree decrement(n) is the node of the next
\* smaller key (null at the minimum), increment(n) the node of the next
\* greater key (null at the maximum), and decrement undoes increment.
C17_DecrementInverse ==
    \A n \in Reach(heap, root["A"]) :
        /\ decrement(heap, n) = NodeBelow(heap, root["A"], heap[n].key)
        /\ increment(heap, n) = NodeAbove(heap, root["A"], heap[n].key)
        /\ increment(heap, n) # Null => decrement(heap, increment(heap, n)) = n

\* C17 witness: after an erase, a tree of three keys or more with a node
\* whose predecessor is the rightmost node of a left subtree that is not
\* the left child itself, and a node whose predecessor is found upwards.
C17_Witness ==
    /\ op.name = "erase"
    /\ Cardinality(Reach(heap, root["A"])) >= 3
    /\ \E n \in Reach(heap, root["A"]) :
          /\ heap[n].left # Null
          /\ decrement(heap, n) # heap[n].left
          /\ increment(heap, decrement(heap, n)) = n
    /\ \E n \in Reach(heap, root["A"]) :
          /\ heap[n].left = Null
          /\ decrement(heap, n) # Null
          /\ increment(heap, decrement(heap, n)) = n

\* C18 (as claimed): when operator[] inserts an absent key into a
\* non-empty tree, the insert_balance walk from the new leaf makes finitely
\* many calls (at most two per node), the last of them at a node whose
\* parent is null, and operator[] returns with that node as the map's root.
C18_WalkEndsAtRoot ==
    [][(op'.name = "index" /\ ~op'.hit /\ root["A"] # Null) =>
         /\ ~op'.ub
         /\ op'.steps >= 1
         /\ op'.steps <= 2 * Cardinality(Reach(heap', root'["A"]))
         /\ op'.last # Null
         /\ heap'[op'.last].parent = Null
         /\ op'.last = root'["A"]]_vars

\* C19 (as claimed): no operator[] call, after any insertions and erasures,
\* enters a rotation branch of try_fix_balance at a node whose child to
\* promote is null, and so none dereferences a null child in the root
\* rewrite.
C19_NoNullRotation ==
    [][op'.name \in {"index", "write"} => (~op'.nullrot /\ ~op'.ub)]_vars

====
